---- MODULE Spec2Model ----
(***************************************************************************)
(* Kernel event stream consumer of fibratus: the record callback, the      *)
(* processor chain (process processor, handle processor), the publish      *)
(* logic with its filters, the sequencer, and the two bounded channels.    *)
(***************************************************************************)
EXTENDS Integers, Sequences, FiniteSets, TLC

(* ------------------------------ bounds -------------------------------- *)

\* number of event records the trace sessions deliver in one behaviour
MaxRecords == 2
\* capacity of the kevts channel (500 in the source), scaled down
KevtsCap == 1
\* capacity of the errs channel (1000 in the source), scaled down
ErrsCap == 1
\* longest processor chain drawn for the chain walk on its own
MaxProcs == 3
\* number of event records when a single trace session is open
MaxRecordsOne == 3
\* number of auxiliary trace sessions that can be configured
MaxAux == 2
\* number of GetHandleWithTimeout calls in one behaviour
MaxCalls == 2
\* number of calls on the snapshotter in one behaviour
MaxOps == 3

(* ----------------------------- universes ------------------------------ *)

\* the open trace handles, one ProcessTrace goroutine each
TraceHandles == {"kernel", "aux"}

SelfPid == "self"
NoPid == "nil"
Pids == {SelfPid, "p1"}

\* image of a pid as the operating system reports it
OsImage(pid) == IF pid = SelfPid THEN "fibratus.exe" ELSE "svchost.exe"

NoObject == "noobj"
Objects == {"o1"}

RawKeyName == "\\REGISTRY\\MACHINE\\X"
RawNames == {"", RawKeyName}

ProcessKinds == {"CreateProcess", "TerminateProcess", "ProcessRundown"}
ThreadKinds == {"CreateThread", "ThreadRundown"}
HandleKinds == {"CreateHandle", "CloseHandle"}
OtherKinds == {"RegOpenKey"}

NoErr == "nil"
ErrCancelUpstreamKevent == "cancel"
ErrFail == "fail"

(* ------------------------------- events ------------------------------- *)

\* classification flags derivable from the type
IsState(e) == e.kind \in {"ProcessRundown"}
IsRundown(e) == e.kind \in {"ProcessRundown"}
IsCreateProcess(e) == e.kind = "CreateProcess"
IsTerminateProcess(e) == e.kind = "TerminateProcess"
IsTerminateThread(e) == e.kind = "TerminateThread"
CurrentPid(e) == e.pid = SelfPid
IsHandleCategory(e) == e.kind \in HandleKinds

NoEvent == [id |-> 0, kind |-> "none", pid |-> NoPid, tpid |-> NoPid,
            obj |-> NoObject, name |-> "", seq |-> 0, ps |-> NoPid]

\* kevent.New(k.sequencer.Get(), evt): the event is stamped with the current
\* value of the sequencer when the record arrives
NewKevent(id, kind, pid, tpid, obj, name, seqno) ==
    [id |-> id, kind |-> kind, pid |-> pid, tpid |-> tpid,
     obj |-> obj, name |-> name, seq |-> seqno, ps |-> NoPid]

\* the records a trace session can deliver
RecordShapes ==
    [kind : {"CreateProcess"}, pid : Pids, tpid : {"p1"},
     obj : {NoObject}, name : {""}]
    \cup [kind : {"ProcessRundown"}, pid : {"p1"}, tpid : {"p1"},
          obj : {NoObject}, name : {""}]
    \cup [kind : {"CreateHandle"}, pid : {"p1"}, tpid : {NoPid},
          obj : Objects, name : RawNames]
    \cup [kind : {"CloseHandle"}, pid : {"p1"}, tpid : {NoPid},
          obj : Objects, name : {RawKeyName}]
    \cup [kind : OtherKinds, pid : Pids, tpid : {NoPid},
          obj : {NoObject}, name : {""}]

(* --------------------------- process snapshot ------------------------- *)

\* a record of the index; parent is the pid of the record the parent pointer
\* refers to, NoPid when the pointer is nil
NoProc == [pid |-> NoPid, ppid |-> NoPid, name |-> "", threads |-> {},
           handles |-> {}, parent |-> NoPid, present |-> FALSE]
\* pstypes.NewProc: no threads, no handles, no parent pointer
NewProc(pid, ppid, name) ==
    [pid |-> pid, ppid |-> ppid, name |-> name, threads |-> {},
     handles |-> {}, parent |-> NoPid, present |-> TRUE]

\* outcomes of the calls the snapshotter makes while writing an event:
\* "params" - GetPid / GetPpid fails, "init" - initProc fails
SnapOutcomes == {"ok", "params", "init"}
\* the outcomes that make a difference for a record
SnapOutcomesOf(r) ==
    IF r.kind \in ProcessKinds \cup ThreadKinds
    THEN SnapOutcomes \ {"params"} ELSE {"ok"}

\* snapshotter.Write: the record is inserted also when initProc fails, and
\* its parent pointer is set to the entry of the parent pid
SnapWrite(ps, e, sn) ==
    IF sn = "params"
    THEN [procs |-> ps, e |-> e, err |-> ErrFail]
    ELSE LET pname == IF e.kind \in ProcessKinds THEN OsImage(e.tpid) ELSE ""
             ps1 == [ps EXCEPT ![e.tpid] = NewProc(e.tpid, e.pid, pname)]
             ps2 == [ps1 EXCEPT ![e.tpid].parent =
                        IF ps1[e.pid].present THEN e.pid ELSE NoPid]
             attached == IF IsCreateProcess(e)
                         THEN (IF ps2[e.pid].present THEN e.pid ELSE NoPid)
                         ELSE e.tpid
         IN [procs |-> ps2,
             e |-> [e EXCEPT !.ps = attached],
             err |-> IF sn = "init" THEN ErrFail ELSE NoErr]

\* mutant: Remove leaves the parent pointers alone
RemoveResetsParentNever(proc, pid) == FALSE

\* if proc.Ppid == pid { s.procs[procID].Parent = nil }
RemoveResetsParent(proc, pid) == proc.ppid = pid

\* snapshotter.Remove: the entry is deleted and the parent pointer of the
\* records whose parent pid it was is reset
SnapRemove(ps, e, sn) ==
    IF sn = "params"
    THEN [procs |-> ps, e |-> e, err |-> ErrFail]
    ELSE [procs |-> [p \in DOMAIN ps |->
                       IF p = e.tpid THEN NoProc
                       ELSE IF ps[p].present /\ RemoveResetsParent(ps[p], e.tpid)
                       THEN [ps[p] EXCEPT !.parent = NoPid]
                       ELSE ps[p]],
          e |-> e, err |-> NoErr]

\* outcomes of the OS calls of a Find that misses the index
FindOutcomes == [open : {"full", "limited", "fail"}, rest : BOOLEAN]

\* snapshotter.Find after a miss: it synthesizes a record, names it only on
\* the limited-access path and, when every later OS call succeeds, takes the
\* write lock and stores it under the pid, whatever the index holds by then
FindMiss(ps, pid, os) ==
    LET proc == NewProc(pid, NoPid,
                        IF os.open = "limited" THEN OsImage(pid) ELSE "")
    IN [proc |-> proc,
        procs |-> IF os.open # "fail" /\ os.rest
                  THEN [ps EXCEPT ![pid] = proc] ELSE ps]

\* snapshotter.Find of a live snapshotter with no other caller in between:
\* a hit returns the indexed record, a miss goes on as above
SnapFind(ps, pid, os) ==
    IF ps[pid].present
    THEN [proc |-> ps[pid], procs |-> ps]
    ELSE FindMiss(ps, pid, os)

(* ----------------------------- processors ----------------------------- *)

\* psProcessor.ProcessEvent: process and thread events are written to or
\* removed from the snapshotter and end the walk (next = false); every other
\* event passes through
PsProcessEvent(e, ps, sn) ==
    IF e.kind \in ProcessKinds
    THEN LET r == IF IsTerminateProcess(e) THEN SnapRemove(ps, e, sn)
                  ELSE SnapWrite(ps, e, sn)
         IN [out |-> r.e, next |-> FALSE, err |-> r.err, procs |-> r.procs]
    ELSE IF e.kind \in ThreadKinds \cup {"TerminateThread"}
    THEN LET r == IF ~IsTerminateThread(e) THEN SnapWrite(ps, e, sn)
                  ELSE SnapRemove(ps, e, sn)
         IN [out |-> r.e, next |-> FALSE, err |-> r.err, procs |-> r.procs]
    ELSE [out |-> e, next |-> TRUE, err |-> NoErr, procs |-> ps]

\* key.Format on a registry key name, then the rebuilt name: a recognised
\* root is rewritten, any other name passes through
KeyFormat(name) == IF name = RawKeyName THEN "HKLM\\X" ELSE name

\* outcomes of the fallible calls of the handle processor: early - a
\* parameter is missing or the type cannot be resolved; w - hsnap.Write
\* fails; r1, r2 - the first, the second hsnap.Remove call fails
HandleOutcomes == [early : BOOLEAN, w : BOOLEAN, r1 : BOOLEAN, r2 : BOOLEAN]

AllFine == [early |-> FALSE, w |-> FALSE, r1 |-> FALSE, r2 |-> FALSE]
\* the outcomes that make a difference for a record
HandleOutcomesOf(r) ==
    IF r.kind = "CloseHandle"
    THEN {ho \in HandleOutcomes : ~ho.early /\ ~ho.r2 /\ (ho.w => ho.r1)}
    ELSE {AllFine}

Fails(b) == IF b THEN ErrFail ELSE NoErr

\* the pending CreateHandle of an object is overwritten by a later one
StorePending(objs, object, e) == [objs EXCEPT ![object] = e]

\* handleProcessor.processEvent. stored: the event was put in the pending
\* table; returned: the id of the withheld CreateHandle it returned, or 0
HandleProcessEventBody(e, objs, ho) ==
    IF ho.early
    THEN [out |-> e, err |-> ErrFail, objects |-> objs, matches |-> 0,
          stored |-> FALSE, returned |-> 0]
    ELSE
    LET name == KeyFormat(e.name)
        e1 == [e EXCEPT !.name = name]
    IN  IF e.kind = "CreateHandle"
        THEN IF name = ""
             THEN [out |-> e1, err |-> ErrCancelUpstreamKevent,
                   objects |-> StorePending(objs, e.obj, e1), matches |-> 0,
                   stored |-> TRUE, returned |-> 0]
             ELSE [out |-> e1, err |-> Fails(ho.w), objects |-> objs,
                   matches |-> 0, stored |-> FALSE, returned |-> 0]
        ELSE IF objs[e.obj] # NoEvent
        THEN LET evt == [objs[e.obj] EXCEPT !.name = name]
                 objs2 == [objs EXCEPT ![e.obj] = NoEvent]
             IN  IF ho.w /\ ho.r1
                 THEN [out |-> e1, err |-> ErrFail, objects |-> objs2,
                       matches |-> 1, stored |-> FALSE, returned |-> 0]
                 ELSE [out |-> evt,
                       err |-> Fails(IF ho.w THEN ho.r2 ELSE ho.r1),
                       objects |-> objs2, matches |-> 1, stored |-> FALSE,
                       returned |-> evt.id]
        ELSE [out |-> e1, err |-> Fails(ho.r1), objects |-> objs,
              matches |-> 0, stored |-> FALSE, returned |-> 0]

\* handleProcessor.ProcessEvent: only handle events are processed, and they
\* end the walk
HandleProcessEvent(e, objs, ho) ==
    IF IsHandleCategory(e)
    THEN LET r == HandleProcessEventBody(e, objs, ho)
         IN [out |-> r.out, next |-> FALSE, err |-> r.err,
             objects |-> r.objects, matches |-> r.matches,
             stored |-> r.stored, returned |-> r.returned]
    ELSE [out |-> e, next |-> TRUE, err |-> NoErr, objects |-> objs,
          matches |-> 0, stored |-> FALSE, returned |-> 0]

(* ------------------------------- chain -------------------------------- *)

\* what the walk returns when it ends without a cancellation
ChainReturn(output, errs, invoked) ==
    [output |-> output,
     err |-> IF Len(errs) > 0 THEN ErrFail ELSE NoErr,
     errs |-> IF Len(errs) > 0 THEN errs ELSE << >>,
     invoked |-> invoked,
     failures |-> Len(errs)]

\* mutant: the walk ends at the first processor error
ChainOnErrorStop(errs, i) == [errs |-> Append(errs, i), stop |-> TRUE]

\* what the walk does with a processor's non-cancel error: collect it and go on
ChainOnError(errs, i) == [errs |-> Append(errs, i), stop |-> FALSE]

\* mutant: the walk ignores the proceed flag
ChainStopsNever(r) == FALSE

\* if !next { break }: a processor that returned no error ends the walk by
\* returning proceed = false
ChainStops(r) == ~r.next

\* chain.ProcessEvent over the results rs[i] = [out, next, err] that the
\* processors give for the event
RECURSIVE ChainWalk(_, _, _, _)
ChainWalk(rs, i, errs, output) ==
    IF i > Len(rs)
    THEN ChainReturn(output, errs, Len(rs))
    ELSE LET r == rs[i]
         IN IF r.err # NoErr
            THEN IF r.err # ErrCancelUpstreamKevent
                 THEN LET c == ChainOnError(errs, i)
                      IN IF c.stop THEN ChainReturn(r.out, c.errs, i)
                         ELSE ChainWalk(rs, i + 1, c.errs, r.out)
                 ELSE [output |-> r.out, err |-> ErrCancelUpstreamKevent,
                       errs |-> << >>, invoked |-> i,
                       failures |-> Len(errs)]
            ELSE IF ChainStops(r)
                 THEN ChainReturn(r.out, errs, i)
                 ELSE ChainWalk(rs, i + 1, errs, r.out)

\* var output starts as nil
ChainProcessEvent(rs) == ChainWalk(rs, 1, << >>, NoEvent)

(* ------------------------------ consumer ------------------------------ *)

VARIABLES
    seq,        \* the sequencer's counter
    nextId,     \* number of the next record the sessions deliver
    pc,         \* where the record callback of each trace handle stands
    cur,        \* the event and the error that callback holds
    objects,    \* handleProcessor.objects: pending CreateHandle per object
    procs,      \* snapshotter.procs
    kevts,      \* the output channel
    errs,       \* the error channel
    metrics,    \* the expvar counters
    cfg,        \* capture flag, event callback, filter, exclude lists
    delivered,  \* history: what reached Events() or the event callback
    lastPub,    \* history: how the latest publishEvent call ended
    held,       \* history: the withheld CreateHandle events not yet returned
    crs,        \* chain walk on its own: the processors' results
    cres,       \* chain walk on its own: what the walk returned
    traces,     \* OpenKstream: the sessions passed in, and whether each opens
    todo,       \* OpenKstream: the sessions the range loop has not visited
    traceHandles, \* k.traceHandles: the handles added by openKstream
    tracePc,    \* where the ProcessTrace goroutine of each session stands
    openRet,    \* what OpenKstream returned, "pending" until it returns
    closeTraceCalls, \* the etw.CloseTrace calls made on each trace handle
    kclosed,    \* CloseKstream was called since the latest OpenKstream
    restarted,  \* OpenKstream was called again after a CloseKstream
    thread,     \* resolver: the worker thread slot, 0 when empty
    ini,        \* resolver: the init event is signalled
    done,       \* resolver: the done event is signalled
    rawHandle,  \* resolver: the handle stored for the worker
    objectNameInCallback, \* resolver: the name the worker wrote
    workers,    \* resolver: state of every worker thread ever created
    gpc,        \* resolver: where the caller of GetHandleWithTimeout stands
    gret,       \* resolver: the argument and the result of the latest call
    waitTimeoutCounts, \* resolver: handle.wait.timeouts
    stale,      \* history: the workers a wait on done has timed out on
    snapCapture, \* snapshotter.capture: built from a capture (replay mode)
    reaperPc,   \* gcDeadProcesses: "none" when it was not started
    tickC,      \* a tick is buffered in the ticker's channel
    tickStopped, \* tick.Stop() was called
    closePc,    \* the caller of Close(): "sending" while it is in s.quit <-
    closes,     \* number of Close() calls that returned
    reapedProcesses, \* process.reaped
    lastOp,     \* history: the latest call on the snapshotter
    cb,         \* the handle callback between its read and its write lock
    fd,         \* the Find that missed and has not taken the write lock yet
    hp,         \* handle processor: where each callback stands in it
    mapFault    \* the runtime stopped the process on a concurrent map access

vars == <<seq, nextId, pc, cur, objects, procs, kevts, errs, metrics, cfg,
          delivered, lastPub, held, crs, cres,
          traces, todo, traceHandles, tracePc, openRet, closeTraceCalls,
          kclosed, restarted,
          thread, ini, done, rawHandle, objectNameInCallback, workers, gpc,
          gret, waitTimeoutCounts, stale,
          snapCapture, reaperPc, tickC, tickStopped, closePc, closes,
          reapedProcesses, lastOp, cb, fd, hp, mapFault>>

consumerVars == <<seq, nextId, pc, cur, objects, procs, kevts, errs, metrics,
                  cfg, delivered, lastPub, held>>
chainVars == <<crs, cres>>
openVars == <<traces, todo, traceHandles, tracePc, openRet, closeTraceCalls,
              kclosed, restarted>>
\* what the record callbacks leave alone
resolverVars == <<thread, ini, done, rawHandle, objectNameInCallback,
                  workers, gpc, gret, waitTimeoutCounts, stale>>
snapVars == <<snapCapture, reaperPc, tickC, tickStopped, closePc, closes,
              reapedProcesses, lastOp, cb, fd>>
raceVars == <<hp, mapFault>>
sideVars == <<openVars, resolverVars, snapVars, raceVars>>

NoCur == [trig |-> 0, e |-> NoEvent, err |-> NoErr, img |-> ""]

\* the configurations the consumer is built with
Configs ==
    {[capture |-> c.capture, callback |-> c.callback, filter |-> c.filter,
      excludedImages |-> c.images, excludedKinds |-> c.kinds] :
        c \in {[capture |-> FALSE, callback |-> FALSE, filter |-> "nil",
                images |-> {}, kinds |-> {}],
               [capture |-> TRUE, callback |-> FALSE, filter |-> "RegOpenKey",
                images |-> {"svchost.exe"}, kinds |-> {}],
               [capture |-> FALSE, callback |-> FALSE, filter |-> "nil",
                images |-> {"fibratus.exe"}, kinds |-> {"CreateHandle"}],
               [capture |-> TRUE, callback |-> TRUE, filter |-> "nil",
                images |-> {"fibratus.exe"}, kinds |-> {}],
               [capture |-> FALSE, callback |-> TRUE, filter |-> "RegOpenKey",
                images |-> {"svchost.exe"}, kinds |-> {"CreateHandle"}]}}

ZeroMetrics ==
    [failedKevents |-> 0, keventsEnqueued |-> 0, excludedKevents |-> 0,
     excludedProcs |-> 0, upstreamCancellations |-> 0,
     handleDeferMatches |-> 0, processorFailures |-> 0]

NoChainResult ==
    [output |-> NoEvent, err |-> NoErr, errs |-> << >>, invoked |-> 0,
     failures |-> 0]

NoPub == [pid |-> NoPid, kind |-> "none", img |-> "", by |-> "none"]

InitConsumer ==
    /\ seq = 0
    /\ nextId = 1
    /\ pc = [h \in TraceHandles |-> "idle"]
    /\ cur = [h \in TraceHandles |-> NoCur]
    /\ objects = [o \in Objects |-> NoEvent]
    /\ procs = [p \in Pids |-> NoProc]
    /\ kevts = << >>
    /\ errs = << >>
    /\ metrics = ZeroMetrics
    /\ cfg \in Configs
    /\ delivered = << >>
    /\ lastPub = NoPub
    /\ held = [o \in Objects |-> {}]

InitChain ==
    /\ crs = << >>
    /\ cres = NoChainResult

\* config.Kstream.ExcludeImage(proc)
ExcludeImage(proc) == proc.present /\ proc.name \in cfg.excludedImages

\* config.Kstream.ExcludeKevent(e)
ExcludeKevent(e) == e.kind \in cfg.excludedKinds

\* filter.Run(e): the installed filter rejects one kind of event
FilterRun(e) == e.kind # cfg.filter

\* mutant: the check of the agent's own PID is missing
isEventDroppedBySkipSelf(e, dup) ==
    IF IsState(e) /\ ~cfg.capture THEN "state"
    ELSE IF IsRundown(e) /\ dup THEN "rundown"
    ELSE IF ExcludeKevent(e) THEN "kind"
    ELSE IF cfg.filter # "nil" /\ ~FilterRun(e) THEN "filter"
    ELSE ""

\* mutant: the check of the excluded event kinds is missing
isEventDroppedBySkipKind(e, dup) ==
    IF IsState(e) /\ ~cfg.capture THEN "state"
    ELSE IF IsRundown(e) /\ dup THEN "rundown"
    ELSE IF CurrentPid(e) THEN "self"
    ELSE IF cfg.filter # "nil" /\ ~FilterRun(e) THEN "filter"
    ELSE ""

\* kstreamConsumer.isEventDropped: "" when the event is kept, else the
\* check that dropped it. dup is IsRundownProcessed()
isEventDroppedBy(e, dup) ==
    IF IsState(e) /\ ~cfg.capture THEN "state"
    ELSE IF IsRundown(e) /\ dup THEN "rundown"
    ELSE IF CurrentPid(e) THEN "self"
    ELSE IF ExcludeKevent(e) THEN "kind"
    ELSE IF cfg.filter # "nil" /\ ~FilterRun(e) THEN "filter"
    ELSE ""

Bump(field, n) == [metrics EXCEPT ![field] = @ + n]

\* a record that decodes to nothing: kevent.New returns nil and the callback
\* returns callbackNext
processEventNilOn(h) ==
    /\ pc[h] = "idle"
    /\ nextId' = nextId + 1
    /\ UNCHANGED <<seq, pc, cur, objects, procs, kevts, errs, metrics, cfg,
                   delivered, lastPub, held>>

\* the sessions deliver MaxRecords records in one behaviour
processEventNil(h) == nextId <= MaxRecords /\ processEventNilOn(h)

\* mutant: a cancellation is handled as any other error of the chain
AfterChainCancelIsError(res) ==
    IF res.err = NoErr THEN "publish" ELSE "senderr"

\* what processEvent does with the chain's result: a cancellation is counted
\* and ends the callback, an error is returned to the callback, and only an
\* event without error goes on to publishEvent
AfterChain(res) ==
    IF res.err = NoErr THEN "publish"
    ELSE IF res.err = ErrCancelUpstreamKevent THEN "idle"
    ELSE "senderr"

\* kstreamConsumer.processEvent up to the call of publishEvent: the event is
\* stamped with sequencer.Get() and walks the chain <<ps, handle>>
processEventOn(h) ==
    /\ pc[h] = "idle"
    /\ \E r \in RecordShapes :
       \E sn \in SnapOutcomesOf(r), ho \in HandleOutcomesOf(r) :
        LET e == NewKevent(nextId, r.kind, r.pid, r.tpid, r.obj, r.name, seq)
            rp == PsProcessEvent(e, procs, sn)
            rh == HandleProcessEvent(rp.out, objects, ho)
            res == ChainProcessEvent(<<rp, rh>>)
            ran == res.invoked >= 2
            to == AfterChain(res)
        IN  /\ nextId' = nextId + 1
            /\ procs' = rp.procs
            /\ objects' = IF ran THEN rh.objects ELSE objects
            /\ held' = IF ran /\ rh.stored
                       THEN [held EXCEPT ![r.obj] = @ \cup {e.id}]
                       ELSE IF ran /\ rh.returned # 0
                       THEN [held EXCEPT ![r.obj] = @ \ {rh.returned}]
                       ELSE held
            /\ metrics' =
                 [metrics EXCEPT
                    !.processorFailures = @ + res.failures,
                    !.handleDeferMatches = @ + (IF ran THEN rh.matches ELSE 0),
                    !.upstreamCancellations =
                        @ + (IF res.err = ErrCancelUpstreamKevent THEN 1 ELSE 0)]
            /\ pc' = [pc EXCEPT ![h] = to]
            /\ cur' = [cur EXCEPT ![h] =
                         IF to = "idle" THEN NoCur
                         ELSE [trig |-> nextId, e |-> res.output,
                               err |-> res.err, img |-> ""]]
    /\ UNCHANGED <<seq, kevts, errs, cfg, delivered, lastPub>>

\* the sessions deliver MaxRecords records in one behaviour
processEvent(h) == nextId <= MaxRecords /\ processEventOn(h)

\* the sequence is incremented for the events that are not state events
Increment(e) == IF ~IsState(e) THEN seq + 1 ELSE seq

\* the outcomes that make a difference for an event
FindOutcomesOf(e) ==
    IF procs[e.pid].present THEN {[open |-> "full", rest |-> TRUE]}
    ELSE FindOutcomes
DupOf(e) == IF IsRundown(e) /\ cfg.capture THEN BOOLEAN ELSE {FALSE}
CallbackErrs == IF cfg.callback THEN BOOLEAN ELSE {FALSE}

\* mutant: the image filter is missing
DropExcludedImageNever(proc) == FALSE

\* the image filter of publishEvent
DropExcludedImage(proc) == ExcludeImage(proc)

\* mutant: an event handed to the callback is counted as enqueued
CallbackMetricsEnqueued == [metrics EXCEPT !.keventsEnqueued = @ + 1]

\* the counter bumped when the event callback took the event
CallbackMetrics == metrics

\* kstreamConsumer.publishEvent up to the delivery: image filter, process
\* state, isEventDropped, sequence increment, and the event callback when one
\* is installed
publishEvent(h) ==
    /\ pc[h] = "publish"
    /\ \E os \in FindOutcomesOf(cur[h].e), dup \in DupOf(cur[h].e),
          cbErr \in CallbackErrs :
        LET e == cur[h].e
            f == SnapFind(procs, e.pid, os)
            e2 == IF e.ps = NoPid /\ f.proc.present
                  THEN [e EXCEPT !.ps = e.pid] ELSE e
            by == isEventDroppedBy(e2, dup)
            pub(by2) == [pid |-> e.pid, kind |-> e.kind,
                         img |-> f.proc.name, by |-> by2]
        IN  /\ procs' = f.procs
            /\ lastPub' = pub(IF DropExcludedImage(f.proc) THEN "image" ELSE by)
            /\ IF DropExcludedImage(f.proc)
               THEN /\ metrics' = Bump("excludedProcs", 1)
                    /\ pc' = [pc EXCEPT ![h] = "idle"]
                    /\ cur' = [cur EXCEPT ![h] = NoCur]
                    /\ UNCHANGED <<seq, delivered>>
               ELSE IF by # ""
               THEN /\ metrics' = Bump("excludedKevents",
                                       IF by = "kind" THEN 1 ELSE 0)
                    /\ pc' = [pc EXCEPT ![h] = "idle"]
                    /\ cur' = [cur EXCEPT ![h] = NoCur]
                    /\ UNCHANGED <<seq, delivered>>
               ELSE IF cfg.callback
               THEN /\ seq' = Increment(e2)
                    /\ delivered' = Append(delivered,
                          [e |-> e2, h |-> h, trig |-> cur[h].trig,
                           img |-> f.proc.name, via |-> "callback"])
                    /\ metrics' = CallbackMetrics
                    /\ pc' = [pc EXCEPT ![h] =
                                IF cbErr THEN "senderr" ELSE "idle"]
                    /\ cur' = [cur EXCEPT ![h] =
                                IF cbErr THEN [cur[h] EXCEPT !.err = ErrFail]
                                ELSE NoCur]
               ELSE /\ seq' = Increment(e2)
                    /\ pc' = [pc EXCEPT ![h] = "send"]
                    /\ cur' = [cur EXCEPT ![h] = [cur[h] EXCEPT
                                 !.e = e2, !.img = f.proc.name]]
                    /\ UNCHANGED <<metrics, delivered>>
    /\ UNCHANGED <<nextId, objects, kevts, errs, cfg, held>>

\* mutant: a send on a full channel drops the event instead of blocking
KevtsPutOrDrop(q, e) ==
    [done |-> TRUE, q |-> IF Len(q) < KevtsCap THEN Append(q, e) ELSE q]

\* k.kevts <- e on the channel holding q: the send goes through (done) only
\* while the channel has room, and then the event is appended
KevtsPut(q, e) == [done |-> Len(q) < KevtsCap, q |-> Append(q, e)]

\* k.kevts <- e, then keventsEnqueued.Add(1): the send blocks while the
\* channel is full
kevtsSend(h) ==
    /\ pc[h] = "send"
    /\ LET put == KevtsPut(kevts, cur[h].e)
       IN  /\ put.done
           /\ kevts' = put.q
           /\ IF put.q # kevts
              THEN /\ delivered' = Append(delivered,
                         [e |-> cur[h].e, h |-> h, trig |-> cur[h].trig,
                          img |-> cur[h].img, via |-> "channel"])
                   /\ metrics' = Bump("keventsEnqueued", 1)
              ELSE UNCHANGED <<delivered, metrics>>
    /\ pc' = [pc EXCEPT ![h] = "idle"]
    /\ cur' = [cur EXCEPT ![h] = NoCur]
    /\ UNCHANGED <<seq, nextId, objects, procs, errs, cfg, lastPub, held>>

\* whether a send on the errs channel holding q can proceed
CanSend(q, cap) == Len(q) < cap

\* k.errs <- err, then failedKevents.Add(err.Error(), 1), in
\* processEventCallback: the send blocks while the channel is full
errsSend(h) ==
    /\ pc[h] = "senderr"
    /\ CanSend(errs, ErrsCap)
    /\ errs' = Append(errs, [trig |-> cur[h].trig, err |-> cur[h].err])
    /\ metrics' = Bump("failedKevents", 1)
    /\ pc' = [pc EXCEPT ![h] = "idle"]
    /\ cur' = [cur EXCEPT ![h] = NoCur]
    /\ UNCHANGED <<seq, nextId, objects, procs, kevts, cfg, delivered, lastPub, held>>

\* the driver receives from Events()
EventsReceive ==
    /\ Len(kevts) > 0
    /\ kevts' = Tail(kevts)
    /\ UNCHANGED <<seq, nextId, pc, cur, objects, procs, errs, metrics, cfg,
                   delivered, lastPub, held>>

\* the driver receives from Errors()
ErrorsReceive ==
    /\ Len(errs) > 0
    /\ errs' = Tail(errs)
    /\ UNCHANGED <<seq, nextId, pc, cur, objects, procs, kevts, metrics, cfg,
                   delivered, lastPub, held>>

Next ==
    \/ \E h \in TraceHandles : processEventNil(h) /\ UNCHANGED <<chainVars, sideVars>>
    \/ \E h \in TraceHandles : processEvent(h) /\ UNCHANGED <<chainVars, sideVars>>
    \/ \E h \in TraceHandles : publishEvent(h) /\ UNCHANGED <<chainVars, sideVars>>
    \/ \E h \in TraceHandles : kevtsSend(h) /\ UNCHANGED <<chainVars, sideVars>>
    \/ \E h \in TraceHandles : errsSend(h) /\ UNCHANGED <<chainVars, sideVars>>
    \/ EventsReceive /\ UNCHANGED <<chainVars, sideVars>>
    \/ ErrorsReceive /\ UNCHANGED <<chainVars, sideVars>>

\* OpenKstream has not been called
InitOpen ==
    /\ traces = << >>
    /\ todo = {}
    /\ traceHandles = << >>
    /\ tracePc = << >>
    /\ openRet = "pending"
    /\ closeTraceCalls = << >>
    /\ kclosed = FALSE
    /\ restarted = FALSE

NoHandle == "nohandle"
Handles == {"h1", "h2"}
WorkerIds == 1..MaxCalls
NoResult == [calls |-> 0, handle |-> NoHandle, name |-> "", err |-> NoErr,
             wait |-> "none"]

\* the package variables after init(): two auto-reset events, not signalled,
\* and no worker thread
InitResolver ==
    /\ thread = 0
    /\ ini = FALSE
    /\ done = FALSE
    /\ rawHandle = NoHandle
    /\ objectNameInCallback = ""
    /\ workers = [w \in WorkerIds |-> [st |-> "unborn", h |-> NoHandle]]
    /\ gpc = "idle"
    /\ gret = NoResult
    /\ waitTimeoutCounts = 0
    /\ stale = {}

NoOp == [n |-> 0, op |-> "none", kind |-> "none", pid |-> NoPid,
         ppid |-> NoPid, sn |-> "ok", os |-> << >>, ps |-> NoProc,
         found |-> NoProc, afterClose |-> FALSE, before |-> NoProc]

\* no handle callback is between its two locks; ps is the record its local
\* pointer refers to, same: the index entry of the pid is still that record
NoCb == [st |-> "idle", kind |-> "none", pid |-> NoPid, ps |-> NoProc,
         same |-> FALSE]
\* no Find is between its lookup and its insert; wrote: since the miss a
\* Write has stored a record under the pid and the entry is still that record
NoFd == [st |-> "idle", pid |-> NoPid, wrote |-> FALSE]

\* NewSnapshotter starts the reaper, NewSnapshotterFromKcap does not
InitSnap ==
    /\ snapCapture \in BOOLEAN
    /\ reaperPc = IF snapCapture THEN "none" ELSE "select"
    /\ tickC = FALSE
    /\ tickStopped = FALSE
    /\ closePc = "idle"
    /\ closes = 0
    /\ reapedProcesses = 0
    /\ lastOp = NoOp
    /\ cb = NoCb
    /\ fd = NoFd

\* the live snapshotter of the consumer
InitSnapLive == InitSnap /\ ~snapCapture

\* no callback is inside the handle processor
NoHp == [st |-> "idle", e |-> NoEvent, evt |-> NoEvent]

InitRace ==
    /\ hp = [h \in TraceHandles |-> NoHp]
    /\ mapFault = FALSE

InitSide == InitOpen /\ InitResolver /\ InitSnapLive /\ InitRace

Init == InitConsumer /\ InitChain /\ InitSide

\* the consumer fed by two trace handles
Spec == Init /\ [][Next]_vars

(* ------------------------ a single trace handle ------------------------ *)

\* only the kernel-logger session is open, and no capture is written
InitOneHandle == Init /\ ~cfg.capture

NextOneHandle ==
    \/ nextId <= MaxRecordsOne /\ processEventNilOn("kernel")
                               /\ UNCHANGED <<chainVars, sideVars>>
    \/ nextId <= MaxRecordsOne /\ processEventOn("kernel")
                               /\ UNCHANGED <<chainVars, sideVars>>
    \/ publishEvent("kernel") /\ UNCHANGED <<chainVars, sideVars>>
    \/ kevtsSend("kernel") /\ UNCHANGED <<chainVars, sideVars>>
    \/ errsSend("kernel") /\ UNCHANGED <<chainVars, sideVars>>
    \/ EventsReceive /\ UNCHANGED <<chainVars, sideVars>>
    \/ ErrorsReceive /\ UNCHANGED <<chainVars, sideVars>>

SpecOneHandle == InitOneHandle /\ [][NextOneHandle]_vars

(* ----------------------------- OpenKstream ----------------------------- *)

KernelLoggerSession == 0
SessionNames == 0..MaxAux

\* trace.IsKernelLogger()
IsKernelLogger(name) == name = KernelLoggerSession

\* the maps of sessions OpenKstream can be called with; valid tells whether
\* etw.OpenTrace returns a valid handle for the session
TraceMaps ==
    UNION {[S -> [valid : BOOLEAN]] : S \in (SUBSET SessionNames) \ {{}}}

\* mutant: a failure to open any session fails the call
OpenFailureIsFatalAlways(name) == TRUE

\* if trace.IsKernelLogger() { return err }
OpenFailureIsFatal(name) == IsKernelLogger(name)

\* one iteration of the range loop of OpenKstream, with the openKstream call
\* it makes; a Go map is ranged over in no particular order. A session that
\* opens has its handle added and its ProcessTrace goroutine started
openKstream ==
    /\ openRet = "pending"
    /\ \E name \in todo :
          /\ todo' = todo \ {name}
          /\ IF traces[name].valid
             THEN /\ traceHandles' = Append(traceHandles, name)
                  /\ closeTraceCalls' = Append(closeTraceCalls, 0)
                  /\ tracePc' = [tracePc EXCEPT ![name] = "processing"]
                  /\ openRet' = openRet
             ELSE /\ openRet' = IF OpenFailureIsFatal(name) THEN ErrFail
                                ELSE openRet
                  /\ UNCHANGED <<traceHandles, closeTraceCalls, tracePc>>
    /\ UNCHANGED <<traces, errs, kclosed, restarted>>

\* the loop is over: return nil
OpenKstreamReturn ==
    /\ openRet = "pending"
    /\ todo = {}
    /\ openRet' = NoErr
    /\ UNCHANGED <<traces, todo, traceHandles, tracePc, errs,
                   closeTraceCalls, kclosed, restarted>>

\* what ProcessTrace and the CloseTrace after a cancellation return
ProcessTraceOutcomes == {"nil", "cancelled", "cancelledCloseFails", "error"}

\* the local traceHandle of the running goroutine of a session: the handle
\* openKstream added last for it, a handle being known by its place in
\* k.traceHandles
TraceHandleOf(name) ==
    CHOOSE i \in 1..Len(traceHandles) :
        /\ traceHandles[i] = name
        /\ \A j \in 1..Len(traceHandles) : traceHandles[j] = name => j <= i

\* etw.ProcessTrace returns in the goroutine of a session: after a
\* cancellation the goroutine calls etw.CloseTrace on its handle, which is
\* valid since openKstream started the goroutine; nothing is sent when
\* ProcessTrace returns nil or when the cancelled trace closes cleanly
processTraceReturns(name) ==
    /\ tracePc[name] = "processing"
    /\ \E o \in ProcessTraceOutcomes :
          /\ tracePc' = [tracePc EXCEPT ![name] =
                           IF o \in {"nil", "cancelled"} THEN "done"
                           ELSE "senderr"]
          /\ closeTraceCalls' =
                IF o \in {"cancelled", "cancelledCloseFails"}
                THEN [closeTraceCalls EXCEPT ![TraceHandleOf(name)] = @ + 1]
                ELSE closeTraceCalls
    /\ UNCHANGED <<traces, todo, traceHandles, openRet, errs, kclosed,
                   restarted>>

\* k.errs <- err in the goroutine: the send blocks while the channel is full
processTraceErrSend(name) ==
    /\ tracePc[name] = "senderr"
    /\ CanSend(errs, ErrsCap)
    /\ errs' = Append(errs, [trig |-> 0, err |-> ErrFail])
    /\ tracePc' = [tracePc EXCEPT ![name] = "done"]
    /\ UNCHANGED <<traces, todo, traceHandles, openRet, closeTraceCalls,
                   kclosed, restarted>>

\* CloseKstream, called once OpenKstream has returned: etw.CloseTrace on
\* every handle of k.traceHandles, whose errors are only logged
CloseKstream ==
    /\ openRet # "pending"
    /\ ~kclosed
    /\ kclosed' = TRUE
    /\ closeTraceCalls' =
          [i \in DOMAIN closeTraceCalls |-> closeTraceCalls[i] + 1]
    /\ UNCHANGED <<traces, todo, traceHandles, tracePc, openRet, errs,
                   restarted>>

\* OpenKstream is called again on the same consumer, with the same map of
\* sessions, after CloseKstream and the end of the goroutines: the handles
\* of the earlier call stay in k.traceHandles
ReopenKstream ==
    /\ kclosed /\ ~restarted
    /\ \A n \in DOMAIN traces : tracePc[n] \in {"none", "done"}
    /\ restarted' = TRUE
    /\ kclosed' = FALSE
    /\ todo' = DOMAIN traces
    /\ tracePc' = [n \in DOMAIN traces |-> "none"]
    /\ openRet' = "pending"
    /\ UNCHANGED <<traces, traceHandles, closeTraceCalls, errs>>

\* OpenKstream is called on a fresh consumer with a map of sessions
InitSpecOpen ==
    /\ InitConsumer
    /\ cfg = [capture |-> FALSE, callback |-> FALSE, filter |-> "nil",
              excludedImages |-> {}, excludedKinds |-> {}]
    /\ InitChain
    /\ traces \in TraceMaps
    /\ todo = DOMAIN traces
    /\ traceHandles = << >>
    /\ tracePc = [n \in DOMAIN traces |-> "none"]
    /\ openRet = "pending"
    /\ closeTraceCalls = << >>
    /\ kclosed = FALSE
    /\ restarted = FALSE
    /\ InitResolver
    /\ InitSnapLive
    /\ InitRace

openUnchanged ==
    UNCHANGED <<seq, nextId, pc, cur, objects, procs, kevts, metrics, cfg,
                delivered, lastPub, held, chainVars, resolverVars, snapVars,
                raceVars>>

NextOpen ==
    \/ openKstream /\ openUnchanged
    \/ OpenKstreamReturn /\ openUnchanged
    \/ \E n \in DOMAIN traces : processTraceReturns(n) /\ openUnchanged
    \/ \E n \in DOMAIN traces : processTraceErrSend(n) /\ openUnchanged
    \/ CloseKstream /\ openUnchanged
    \/ ErrorsReceive /\ UNCHANGED <<chainVars, sideVars>>

SpecOpen == InitSpecOpen /\ [][NextOpen]_vars

\* a consumer that is opened, closed, and opened and closed once more, with
\* the kernel logger and at most one auxiliary session
InitSpecReopen ==
    /\ InitSpecOpen
    /\ DOMAIN traces \subseteq {KernelLoggerSession, KernelLoggerSession + 1}

NextReopen ==
    \/ openKstream /\ openUnchanged
    \/ OpenKstreamReturn /\ openUnchanged
    \/ \E n \in DOMAIN traces : processTraceReturns(n) /\ openUnchanged
    \/ \E n \in DOMAIN traces : processTraceErrSend(n) /\ openUnchanged
    \/ ErrorsReceive /\ UNCHANGED <<chainVars, sideVars>>
    \/ CloseKstream /\ openUnchanged
    \/ ReopenKstream /\ openUnchanged

SpecReopen == InitSpecReopen /\ [][NextReopen]_vars

(* ----------------------- handle name resolver -------------------------- *)

\* QueryObjectName of a handle
ObjectName(h) == IF h = "h1" THEN "n1" ELSE "n2"

\* the call returns (name, err) to a serialized caller
GhReturn(name, err, wait) ==
    /\ gret' = [gret EXCEPT !.name = name, !.err = err, !.wait = wait]
    /\ gpc' = "idle"

\* what the calls made while the thread slot is empty can do
BeginOutcomes == {"ok", "resetIniFails", "resetDoneFails", "createFails"}

\* mutant: every call creates a worker
SlotEmptyAlways == TRUE

\* if thread == 0
SlotEmpty == thread = 0

\* GetHandleWithTimeout up to rawHandle.Store: with an empty thread slot the
\* two events are reset and a worker is created
ghBegin ==
    /\ gpc = "idle"
    /\ gret.calls < MaxCalls
    /\ \E h \in Handles :
       \E o \in (IF SlotEmpty THEN BeginOutcomes ELSE {"ok"}) :
        LET arg == [calls |-> gret.calls + 1, handle |-> h, name |-> "",
                    err |-> NoErr, wait |-> "none"]
            w == CHOOSE x \in WorkerIds :
                    /\ workers[x].st = "unborn"
                    /\ \A y \in WorkerIds : y < x => workers[y].st # "unborn"
        IN  IF ~SlotEmpty
            THEN /\ gret' = arg
                 /\ gpc' = "signal"
                 /\ UNCHANGED <<thread, ini, done, workers>>
            ELSE /\ gret' = [arg EXCEPT !.err = IF o = "ok" THEN NoErr
                                                ELSE ErrFail]
                 /\ gpc' = IF o = "ok" THEN "signal" ELSE "idle"
                 /\ ini' = IF o = "resetIniFails" THEN ini ELSE FALSE
                 /\ done' = IF o \in {"resetIniFails", "resetDoneFails"}
                            THEN done ELSE FALSE
                 /\ thread' = IF o = "ok" THEN w ELSE 0
                 /\ workers' = IF o = "ok"
                               THEN [workers EXCEPT ![w].st = "waitini"]
                               ELSE workers
    /\ UNCHANGED <<rawHandle, objectNameInCallback, waitTimeoutCounts, stale>>

\* rawHandle.Store(handle), then SetEvent(ini), which can fail
ghSignal ==
    /\ gpc = "signal"
    /\ rawHandle' = gret.handle
    /\ \E ok \in BOOLEAN :
          IF ok
          THEN /\ ini' = TRUE
               /\ gpc' = "waiting"
               /\ gret' = gret
          ELSE /\ ini' = ini
               /\ GhReturn("", ErrFail, "none")
    /\ UNCHANGED <<thread, done, objectNameInCallback, workers,
                   waitTimeoutCounts, stale>>

\* what WaitForSingleObject(done, timeout) returns when done is not
\* signalled within the timeout: the wait status WAIT_TIMEOUT with no error,
\* the error WAIT_TIMEOUT, or a failed wait with another error
WaitOutcomes == {"timeoutStatus", "timeoutErrno", "failed"}

\* what TerminateThread and the wait on the thread handle then do
KillOutcomes == {"ok", "terminateFails", "joinFails"}

\* WaitForSingleObject(done, timeout) and the rest of GetHandleWithTimeout
ghWait ==
    /\ gpc = "waiting"
    /\ IF done
       THEN /\ done' = FALSE
            /\ GhReturn(objectNameInCallback, NoErr, "signalled")
            /\ UNCHANGED <<thread, workers, waitTimeoutCounts, stale>>
       ELSE \E o \in WaitOutcomes, k \in KillOutcomes :
            /\ done' = done
            /\ stale' = IF o = "failed" THEN stale ELSE stale \cup {thread}
            /\ IF o = "timeoutErrno"
               THEN /\ waitTimeoutCounts' = waitTimeoutCounts + 1
                    /\ workers' = IF k = "terminateFails" THEN workers
                                  ELSE [workers EXCEPT ![thread].st = "dead"]
                    /\ thread' = IF k = "ok" THEN 0 ELSE thread
                    /\ GhReturn("", ErrFail, o)
               ELSE /\ k = "ok"
                    /\ GhReturn("", NoErr, o)
                    /\ UNCHANGED <<thread, workers, waitTimeoutCounts>>
    /\ UNCHANGED <<ini, rawHandle, objectNameInCallback>>

\* the workers that run: a worker the caller terminated, or that left its
\* loop, executes nothing of getObjectNameCallback any more
Alive(w) == workers[w].st \in {"waitini", "woken", "querying", "setdone"}

\* getObjectNameCallback: WaitForSingleObject(ini, INFINITE) returns because
\* ini was signalled (the auto-reset event is consumed), or it fails and the
\* worker leaves its loop
workerWake(w) ==
    /\ workers[w].st = "waitini"
    /\ \/ /\ ini
          /\ ini' = FALSE
          /\ workers' = [workers EXCEPT ![w].st = "woken"]
       \/ /\ ini' = ini
          /\ workers' = [workers EXCEPT ![w].st = "exited"]
    /\ UNCHANGED <<thread, done, rawHandle, objectNameInCallback, gpc, gret,
                   waitTimeoutCounts, stale>>

\* rawHandle.Load(): the handle the query is made for
workerLoad(w) ==
    /\ workers[w].st = "woken"
    /\ workers' = [workers EXCEPT ![w].st = "querying", ![w].h = rawHandle]
    /\ UNCHANGED <<thread, ini, done, rawHandle, objectNameInCallback, gpc,
                   gret, waitTimeoutCounts, stale>>

\* objectNameInCallback, err = QueryObjectName(...) returns, with the name
\* of the handle loaded or with an error: a query that hangs for ever never
\* takes this step
workerQuery(w) ==
    /\ workers[w].st = "querying"
    /\ \E ok \in BOOLEAN :
          objectNameInCallback' = IF ok THEN ObjectName(workers[w].h) ELSE ""
    /\ workers' = [workers EXCEPT ![w].st = "setdone"]
    /\ UNCHANGED <<thread, ini, done, rawHandle, gpc, gret,
                   waitTimeoutCounts, stale>>

\* SetEvent(done): the worker goes back to wait for ini, or leaves its loop
\* when the call fails
workerSetDone(w) ==
    /\ workers[w].st = "setdone"
    /\ \E ok \in BOOLEAN :
          /\ done' = IF ok THEN TRUE ELSE done
          /\ workers' = [workers EXCEPT ![w].st =
                            IF ok THEN "waitini" ELSE "exited"]
    /\ UNCHANGED <<thread, ini, rawHandle, objectNameInCallback, gpc, gret,
                   waitTimeoutCounts, stale>>

resolverUnchanged ==
    UNCHANGED <<consumerVars, chainVars, openVars, snapVars, raceVars>>

NextResolver ==
    \/ ghBegin /\ resolverUnchanged
    \/ ghSignal /\ resolverUnchanged
    \/ ghWait /\ resolverUnchanged
    \/ \E w \in WorkerIds : workerWake(w) /\ resolverUnchanged
    \/ \E w \in WorkerIds : workerLoad(w) /\ resolverUnchanged
    \/ \E w \in WorkerIds : workerQuery(w) /\ resolverUnchanged
    \/ \E w \in WorkerIds : workerSetDone(w) /\ resolverUnchanged

InitSpecResolver ==
    /\ InitConsumer
    /\ cfg = [capture |-> FALSE, callback |-> FALSE, filter |-> "nil",
              excludedImages |-> {}, excludedKinds |-> {}]
    /\ InitChain
    /\ InitSide

\* serialized calls of GetHandleWithTimeout and the worker threads
SpecResolver == InitSpecResolver /\ [][NextResolver]_vars

(* ----------------------- the snapshotter on its own -------------------- *)

\* snapshotter.Size
Size(ps) == Cardinality({p \in DOMAIN ps : ps[p].present})

Tids == {"t1"}

\* the process and thread events the process processor writes or removes
PsRecordShapes ==
    [kind : ProcessKinds \cup ThreadKinds \cup {"TerminateThread"},
     pid : Pids, tpid : Pids]

\* the local pointer of a handle callback after another caller has put a
\* different record under the pids of gone, or deleted their entries
CbAfter(c, gone) ==
    IF c.st = "read" /\ c.pid \in gone THEN [c EXCEPT !.same = FALSE] ELSE c

\* a Find that missed, after Write has stored records under the pids of
\* written and the entries of gone were replaced or deleted
FdAfter(f, written, gone) ==
    IF f.st # "miss" THEN f
    ELSE IF f.pid \in written THEN [f EXCEPT !.wrote = TRUE]
    ELSE IF f.pid \in gone THEN [f EXCEPT !.wrote = FALSE]
    ELSE f

\* the pid whose entry the process processor stores anew (Write) or
\* deletes (Remove), none when the parameters cannot be read
PsWritten(r, sn) ==
    IF sn # "params" /\ r.kind \notin {"TerminateProcess", "TerminateThread"}
    THEN {r.tpid} ELSE {}
PsGone(r, sn) == IF sn # "params" THEN {r.tpid} ELSE {}

\* a live snapshotter is fed by the process processor: Write or Remove,
\* each under the write lock
snapPsProcess ==
    /\ ~snapCapture
    /\ lastOp.n < MaxOps
    /\ \E r \in PsRecordShapes, sn \in SnapOutcomes :
        LET e == NewKevent(lastOp.n + 1, r.kind, r.pid, r.tpid, NoObject,
                           "", 0)
            rp == PsProcessEvent(e, procs, sn)
        IN  /\ procs' = rp.procs
            /\ lastOp' = [NoOp EXCEPT !.n = lastOp.n + 1, !.op = "ps",
                                      !.kind = r.kind, !.pid = r.tpid,
                                      !.ppid = r.pid, !.sn = sn,
                                      !.before = procs[r.tpid]]
            /\ cb' = CbAfter(cb, PsGone(r, sn))
            /\ fd' = FdAfter(fd, PsWritten(r, sn), PsGone(r, sn))
    /\ UNCHANGED <<snapCapture, reaperPc, tickC, tickStopped, closePc,
                   closes, reapedProcesses>>

\* Find on a live snapshotter, up to the lookup under the read lock: a hit
\* returns the indexed record, after a miss the caller goes on to the OS
snapFind ==
    /\ ~snapCapture
    /\ lastOp.n < MaxOps
    /\ fd.st = "idle"
    /\ \E pid \in Pids :
        /\ lastOp' = [NoOp EXCEPT !.n = lastOp.n + 1, !.op = "find",
                                  !.pid = pid, !.found = procs[pid]]
        /\ fd' = IF procs[pid].present THEN NoFd
                 ELSE [NoFd EXCEPT !.st = "miss", !.pid = pid]
    /\ UNCHANGED <<procs, snapCapture, reaperPc, tickC, tickStopped, closePc,
                   closes, reapedProcesses, cb>>

\* Find after the miss: the OS calls with no lock held, then the insert
\* under the write lock
snapFindInsert ==
    /\ fd.st = "miss"
    /\ \E os \in FindOutcomes :
        LET f == FindMiss(procs, fd.pid, os)
            gone == IF f.procs # procs THEN {fd.pid} ELSE {}
        IN  /\ procs' = f.procs
            /\ lastOp' = [NoOp EXCEPT !.n = lastOp.n, !.op = "findinsert",
                                      !.pid = fd.pid, !.found = f.proc,
                                      !.before = procs[fd.pid]]
            /\ cb' = CbAfter(cb, gone)
    /\ fd' = NoFd
    /\ UNCHANGED <<snapCapture, reaperPc, tickC, tickStopped, closePc,
                   closes, reapedProcesses>>

\* the handle a callback adds to or removes from a record
HandleIds == {"hd1"}
CallbackKinds == {"created", "destroyed"}

\* onHandleCreated / onHandleDestroyed up to RUnlock: the entry of the pid
\* is read under the read lock; without an entry the callback returns
snapHandleCallback ==
    /\ ~snapCapture
    /\ lastOp.n < MaxOps
    /\ cb.st = "idle"
    /\ \E pid \in Pids, k \in CallbackKinds :
        /\ lastOp' = [NoOp EXCEPT !.n = lastOp.n + 1, !.op = "cbread",
                                  !.kind = k, !.pid = pid,
                                  !.found = procs[pid]]
        /\ cb' = IF procs[pid].present
                 THEN [st |-> "read", kind |-> k, pid |-> pid,
                       ps |-> procs[pid], same |-> TRUE]
                 ELSE NoCb
    /\ UNCHANGED <<procs, snapCapture, reaperPc, tickC, tickStopped, closePc,
                   closes, reapedProcesses, fd>>

\* ps.AddHandle / ps.RemoveHandle on the record the local pointer refers to
ChangeHandles(rec, k, hd) ==
    [rec EXCEPT !.handles = IF k = "created" THEN @ \cup {hd} ELSE @ \ {hd}]

\* the callback after RUnlock: under the write lock the record read before
\* is changed and stored under the pid again
snapHandleCallbackStore ==
    /\ cb.st = "read"
    /\ \E hd \in HandleIds :
        LET rec == IF cb.same THEN procs[cb.pid] ELSE cb.ps
        IN  /\ procs' = [procs EXCEPT ![cb.pid] =
                                      ChangeHandles(rec, cb.kind, hd)]
            /\ lastOp' = [NoOp EXCEPT !.n = lastOp.n, !.op = "cbstore",
                                      !.kind = cb.kind, !.pid = cb.pid,
                                      !.before = procs[cb.pid]]
    /\ fd' = FdAfter(fd, {}, IF cb.same THEN {} ELSE {cb.pid})
    /\ cb' = NoCb
    /\ UNCHANGED <<snapCapture, reaperPc, tickC, tickStopped, closePc,
                   closes, reapedProcesses>>

\* the ticker puts a tick in its channel of capacity one, until it is stopped
reaperTick ==
    /\ reaperPc = "select"
    /\ ~tickStopped /\ ~tickC
    /\ tickC' = TRUE
    /\ UNCHANGED <<procs, snapCapture, reaperPc, tickStopped, closePc, closes,
                   reapedProcesses, lastOp, cb, fd>>

\* what the reaper learns about a pid: OpenProcess fails, or the process is
\* reported running or not running
ReapOutcomes == {"openFails", "running", "dead"}

\* mutant: a process that cannot be opened is reaped too
ReapDecisionOnOpenFail(o) == o \in {"dead", "openFails"}

\* if err != nil { continue }; if !IsProcessRunning(proc) { delete }
ReapDecision(o) == o = "dead"

\* the pids one sweep deletes
Reaped(ps, os) == {p \in DOMAIN ps : ps[p].present /\ ReapDecision(os[p])}

\* the loop over s.procs of one sweep: delete(s.procs, pid) and nothing else
Sweep(ps, os) ==
    [p \in DOMAIN ps |-> IF p \in Reaped(ps, os) THEN NoProc ELSE ps[p]]

\* case <-tick.C: one sweep under the write lock
reaperSweep ==
    /\ reaperPc = "select"
    /\ tickC
    /\ tickC' = FALSE
    /\ \E os \in [Pids -> ReapOutcomes] :
        LET ss == Size(procs)
            ps2 == Sweep(procs, os)
        IN  /\ procs' = ps2
            /\ reapedProcesses' = IF ss > Size(ps2)
                                  THEN reapedProcesses + (ss - Size(ps2))
                                  ELSE reapedProcesses
            /\ lastOp' = [NoOp EXCEPT !.n = lastOp.n, !.op = "sweep",
                                      !.os = os, !.afterClose = closes > 0]
            /\ cb' = CbAfter(cb, Reaped(procs, os))
            /\ fd' = FdAfter(fd, {}, Reaped(procs, os))
    /\ UNCHANGED <<snapCapture, reaperPc, tickStopped, closePc, closes>>

\* Close(): s.quit <- struct{}{} on the unbuffered channel
snapClose ==
    /\ closePc = "idle"
    /\ lastOp.n < MaxOps
    /\ closePc' = "sending"
    /\ lastOp' = [NoOp EXCEPT !.n = lastOp.n + 1, !.op = "close"]
    /\ UNCHANGED <<procs, snapCapture, reaperPc, tickC, tickStopped, closes,
                   reapedProcesses, cb, fd>>

\* case <-s.quit: tick.Stop(), and the for loop goes on; the send of Close
\* completes and Close returns
reaperQuit ==
    /\ reaperPc = "select"
    /\ closePc = "sending"
    /\ tickStopped' = TRUE
    /\ closePc' = "idle"
    /\ closes' = closes + 1
    /\ UNCHANGED <<procs, snapCapture, reaperPc, tickC, reapedProcesses,
                   lastOp, cb, fd>>

\* the thread sets a record restored from a capture can hold
ThreadSets == {{}, Tids}

\* a record embedded in an event of a capture
Embedded(pid, ppid, name, threads) ==
    [NewProc(pid, ppid, name) EXCEPT !.threads = threads]

\* the events of a capture: kind, the parameters pid, ppid and name, and
\* the embedded record e.PS. A rundown embeds the record of its process
KcapEvents ==
    UNION {
      {[kind |-> "ProcessRundown", pid |-> p, ppid |-> pp,
        name |-> OsImage(p), tid |-> "", ps |-> ps] :
          ps \in {NoProc} \cup
                 {Embedded(p, pp, OsImage(p), t) : t \in ThreadSets}}
      \cup
      {[kind |-> "CreateProcess", pid |-> p, ppid |-> pp,
        name |-> OsImage(p), tid |-> "", ps |-> ps] :
          ps \in {NoProc} \cup
                 {Embedded(q, pp, OsImage(q), t) :
                    q \in Pids, t \in ThreadSets}}
      : p \in Pids, pp \in Pids}
    \cup
    {[kind |-> k, pid |-> p, ppid |-> NoPid, name |-> "", tid |-> t,
      ps |-> NoProc] :
        k \in ThreadKinds, p \in Pids, t \in Tids}

\* mutant: a rundown whose record is its own parent is adopted as any other
KcapBogusRundownNever(proc) == FALSE

\* if proc.PID == proc.Ppid { return nil }: invalid process
KcapBogusRundown(proc) == proc.pid = proc.ppid

\* mutant: the record embedded in a CreateProcess event is adopted
KcapCreatedProcEmbedded(e) == e.ps

\* the record WriteFromKcap stores for a CreateProcess event: a new one
\* built from the event's parameters
KcapCreatedProc(e) == NewProc(e.pid, e.ppid, e.name)

\* proc.Parent = s.procs[ppid] through the pointer e.PS: the embedded record
\* changes, and with it the index entry that is the same record
SetParentOfEmbedded(ps, e) ==
    LET parent == IF ps[e.ppid].present THEN e.ppid ELSE NoPid
        aliased == e.kind = "ProcessRundown"
    IN  [procs |-> IF aliased THEN [ps EXCEPT ![e.pid].parent = parent]
                   ELSE ps,
         e |-> [e EXCEPT !.ps.parent = parent]]

\* snapshotter.WriteFromKcap; paramsOk: GetPid and GetPpid succeed
SnapWriteFromKcap(ps, e, paramsOk) ==
    IF e.kind \in {"CreateProcess", "ProcessRundown"}
    THEN IF ~e.ps.present THEN [procs |-> ps, e |-> e, err |-> NoErr]
         ELSE IF ~paramsOk THEN [procs |-> ps, e |-> e, err |-> ErrFail]
         ELSE IF e.kind = "ProcessRundown"
         THEN IF KcapBogusRundown(e.ps)
              THEN [procs |-> ps, e |-> e, err |-> NoErr]
              ELSE LET r == SetParentOfEmbedded(
                                [ps EXCEPT ![e.pid] = e.ps], e)
                   IN [procs |-> r.procs, e |-> r.e, err |-> NoErr]
         ELSE LET r == SetParentOfEmbedded(
                           [ps EXCEPT ![e.pid] = KcapCreatedProc(e)], e)
              IN [procs |-> r.procs, e |-> r.e, err |-> NoErr]
    ELSE IF ~paramsOk THEN [procs |-> ps, e |-> e, err |-> ErrFail]
    ELSE [procs |-> IF ps[e.pid].present
                    THEN [ps EXCEPT ![e.pid].threads = @ \cup {e.tid}]
                    ELSE ps,
          e |-> e, err |-> NoErr]

\* a replay snapshotter is fed by the capture reader
snapWriteFromKcap ==
    /\ snapCapture
    /\ lastOp.n < MaxOps
    /\ \E e \in KcapEvents, paramsOk \in BOOLEAN :
        LET r == SnapWriteFromKcap(procs, e, paramsOk)
        IN  /\ procs' = r.procs
            /\ lastOp' = [NoOp EXCEPT !.n = lastOp.n + 1, !.op = "kcap",
                                      !.kind = e.kind, !.pid = e.pid,
                                      !.ppid = e.ppid, !.ps = r.e.ps,
                                      !.sn = IF r.err = NoErr THEN "ok"
                                             ELSE "params"]
    /\ UNCHANGED <<snapCapture, reaperPc, tickC, tickStopped, closePc,
                   closes, reapedProcesses, cb, fd>>

\* Find in replay mode: a miss returns nil
SnapFindKcap(ps, pid) == ps[pid]

snapFindKcap ==
    /\ snapCapture
    /\ lastOp.n < MaxOps
    /\ \E pid \in Pids :
          lastOp' = [NoOp EXCEPT !.n = lastOp.n + 1, !.op = "find",
                                !.pid = pid,
                                !.found = SnapFindKcap(procs, pid)]
    /\ UNCHANGED <<procs, snapCapture, reaperPc, tickC, tickStopped, closePc,
                   closes, reapedProcesses, cb, fd>>

snapUnchanged ==
    UNCHANGED <<seq, nextId, pc, cur, objects, kevts, errs, metrics, cfg,
                delivered, lastPub, held, chainVars, openVars, resolverVars,
                raceVars>>

NextSnap ==
    \/ snapPsProcess /\ snapUnchanged
    \/ snapFind /\ snapUnchanged
    \/ snapFindInsert /\ snapUnchanged
    \/ snapHandleCallback /\ snapUnchanged
    \/ snapHandleCallbackStore /\ snapUnchanged
    \/ reaperTick /\ snapUnchanged
    \/ reaperSweep /\ snapUnchanged
    \/ snapClose /\ snapUnchanged
    \/ reaperQuit /\ snapUnchanged
    \/ snapWriteFromKcap /\ snapUnchanged
    \/ snapFindKcap /\ snapUnchanged

InitSpecSnap ==
    /\ InitConsumer
    /\ cfg = [capture |-> FALSE, callback |-> FALSE, filter |-> "nil",
              excludedImages |-> {}, excludedKinds |-> {}]
    /\ InitChain
    /\ InitOpen
    /\ InitResolver
    /\ InitSnap
    /\ InitRace

\* a snapshotter, live or replay, with its callers and its reaper
SpecSnap == InitSpecSnap /\ [][NextSnap]_vars

\* the same with a reaper goroutine that is scheduled: a receive from
\* s.quit or from tick.C that stays possible is taken in the end
SpecSnapFair ==
    /\ SpecSnap
    /\ WF_vars(reaperQuit /\ snapUnchanged)
    /\ WF_vars(reaperSweep /\ snapUnchanged)

(* ------------------------ the chain walk on its own -------------------- *)

EvIn == NewKevent(1, "RegOpenKey", "p1", NoPid, NoObject, "", 0)
EvRepl == [EvIn EXCEPT !.name = "replaced"]

\* what a processor can return for the event
ProcResults ==
    [out : {EvIn, EvRepl}, next : BOOLEAN,
     err : {NoErr, ErrFail, ErrCancelUpstreamKevent}]

ChainInputs == UNION {[1..n -> ProcResults] : n \in 1..MaxProcs}

\* one record on the kernel handle whose event walks a chain of up to
\* MaxProcs processors: chain.ProcessEvent, and what processEvent does with
\* its result
chainProcessEvent ==
    /\ crs = << >>
    /\ pc["kernel"] = "idle"
    /\ \E rs \in ChainInputs :
          LET res == ChainProcessEvent(rs)
              to == AfterChain(res)
          IN  /\ crs' = rs
              /\ cres' = res
              /\ metrics' =
                   [metrics EXCEPT
                      !.processorFailures = @ + res.failures,
                      !.upstreamCancellations =
                          @ + (IF res.err = ErrCancelUpstreamKevent
                               THEN 1 ELSE 0)]
              /\ pc' = [pc EXCEPT !["kernel"] = to]
              /\ cur' = [cur EXCEPT !["kernel"] =
                           IF to = "idle" THEN NoCur
                           ELSE [trig |-> nextId, e |-> res.output,
                                 err |-> res.err, img |-> ""]]
    /\ nextId' = nextId + 1
    /\ UNCHANGED <<seq, objects, procs, kevts, errs, cfg, delivered, lastPub,
                   held>>

InitSpecChain ==
    /\ InitConsumer
    /\ cfg = [capture |-> FALSE, callback |-> FALSE, filter |-> "nil",
              excludedImages |-> {}, excludedKinds |-> {}]
    /\ InitChain
    /\ InitSide

\* the record callback of the kernel handle goes on with the chain's result
NextChain ==
    \/ chainProcessEvent /\ UNCHANGED sideVars
    \/ publishEvent("kernel") /\ UNCHANGED <<chainVars, sideVars>>
    \/ kevtsSend("kernel") /\ UNCHANGED <<chainVars, sideVars>>
    \/ errsSend("kernel") /\ UNCHANGED <<chainVars, sideVars>>
    \/ EventsReceive /\ UNCHANGED <<chainVars, sideVars>>
    \/ ErrorsReceive /\ UNCHANGED <<chainVars, sideVars>>

SpecChain == InitSpecChain /\ [][NextChain]_vars

(* ------------- the handle processor under two trace handles ------------ *)

\* the handle records a session delivers
HandleRecordShapes == {r \in RecordShapes : r.kind \in HandleKinds}

\* an access of the callback to h.objects is under way: the store of a
\* withheld CreateHandle, the lookup of a CloseHandle, or its delete
Accessing(h) == hp[h].st \in {"store", "lookup", "delete"}
Writing(h) == hp[h].st \in {"store", "delete"}

\* the access of h overlaps an access of another callback and one of the
\* two writes: the table is a plain Go map, the outcome is undefined
Raced(h) ==
    \E g \in TraceHandles \ {h} :
        Accessing(g) /\ (Writing(g) \/ Writing(h))

\* what a raced access can do: lose its effect, stop the process
RaceOutcomes(h) == IF Raced(h) THEN BOOLEAN ELSE {FALSE}

\* handleProcessor.processEvent of the callback of h up to its first access
\* to h.objects: a CreateHandle with a name makes none
hpEnter(h) ==
    /\ ~mapFault
    /\ hp[h].st = "idle"
    /\ nextId <= MaxRecordsOne
    /\ \E r \in HandleRecordShapes :
        LET e == NewKevent(nextId, r.kind, r.pid, r.tpid, r.obj,
                           KeyFormat(r.name), seq)
        IN  hp' = [hp EXCEPT ![h] =
                     IF e.kind = "CloseHandle"
                     THEN [NoHp EXCEPT !.st = "lookup", !.e = e]
                     ELSE IF e.name = ""
                     THEN [NoHp EXCEPT !.st = "store", !.e = e]
                     ELSE NoHp]
    /\ nextId' = nextId + 1
    /\ UNCHANGED <<objects, metrics, mapFault>>

\* h.objects[object] = e is done
hpStore(h) ==
    /\ ~mapFault
    /\ hp[h].st = "store"
    /\ \E lost \in RaceOutcomes(h), fault \in RaceOutcomes(h) :
          /\ objects' = IF lost THEN objects
                        ELSE StorePending(objects, hp[h].e.obj, hp[h].e)
          /\ mapFault' = fault
    /\ hp' = [hp EXCEPT ![h] = NoHp]
    /\ UNCHANGED <<nextId, metrics>>

\* evt, ok := h.objects[object] is done: without an entry the CloseHandle
\* goes on to hsnap.Remove
hpLookup(h) ==
    /\ ~mapFault
    /\ hp[h].st = "lookup"
    /\ \E lost \in RaceOutcomes(h), fault \in RaceOutcomes(h) :
        LET evt == IF lost THEN NoEvent ELSE objects[hp[h].e.obj]
        IN  /\ hp' = [hp EXCEPT ![h] =
                        IF evt = NoEvent THEN NoHp
                        ELSE [hp[h] EXCEPT !.st = "found", !.evt = evt]]
            /\ mapFault' = fault
    /\ UNCHANGED <<nextId, objects, metrics>>

\* delete(h.objects, object) begins
hpDeleteBegin(h) ==
    /\ ~mapFault
    /\ hp[h].st = "found"
    /\ hp' = [hp EXCEPT ![h].st = "delete"]
    /\ UNCHANGED <<nextId, objects, metrics, mapFault>>

\* delete(h.objects, object) is done, and the match is counted
hpDelete(h) ==
    /\ ~mapFault
    /\ hp[h].st = "delete"
    /\ \E lost \in RaceOutcomes(h), fault \in RaceOutcomes(h) :
          /\ objects' = IF lost THEN objects
                        ELSE [objects EXCEPT ![hp[h].e.obj] = NoEvent]
          /\ mapFault' = fault
    /\ metrics' = [metrics EXCEPT !.handleDeferMatches = @ + 1]
    /\ hp' = [hp EXCEPT ![h] = NoHp]
    /\ UNCHANGED nextId

raceUnchanged ==
    UNCHANGED <<seq, pc, cur, procs, kevts, errs, cfg, delivered, lastPub,
                held, chainVars, openVars, resolverVars, snapVars>>

NextHandles ==
    \/ \E h \in TraceHandles : hpEnter(h) /\ raceUnchanged
    \/ \E h \in TraceHandles : hpStore(h) /\ raceUnchanged
    \/ \E h \in TraceHandles : hpLookup(h) /\ raceUnchanged
    \/ \E h \in TraceHandles : hpDeleteBegin(h) /\ raceUnchanged
    \/ \E h \in TraceHandles : hpDelete(h) /\ raceUnchanged

InitSpecHandles ==
    /\ InitConsumer
    /\ cfg = [capture |-> FALSE, callback |-> FALSE, filter |-> "nil",
              excludedImages |-> {}, excludedKinds |-> {}]
    /\ InitChain
    /\ InitSide

\* the callbacks of two trace handles, each on the goroutine of its
\* ProcessTrace, in the one handle processor of the chain
SpecHandles == InitSpecHandles /\ [][NextHandles]_vars

(* ------------------------------ properties ---------------------------- *)

\* C1: every delivered event carries a sequence number strictly greater than
\* that of every event delivered before it
C1_SequenceStrictlyMonotonic ==
    \A i, j \in 1..Len(delivered) :
        i < j => delivered[i].e.seq < delivered[j].e.seq

\* C2: when a CloseHandle takes a withheld CreateHandle out of the pending
\* table, the handle processor returns that CreateHandle, carrying the
\* CloseHandle's name, and not the CloseHandle; handle.deferred.matches grows
\* by exactly one, and no CreateHandle withheld for that object pointer is
\* left unreturned
C2_DeferredCreateReturnedOnce ==
    [][\A o \in Objects :
          (objects[o] # NoEvent /\ objects'[o] = NoEvent)
          => /\ metrics'.handleDeferMatches = metrics.handleDeferMatches + 1
             /\ held'[o] = {}
             /\ \E h \in TraceHandles :
                  /\ pc[h] = "idle" /\ pc'[h] # "idle"
                  /\ cur'[h].e.kind = "CreateHandle"
                  /\ cur'[h].e.id = objects[o].id
                  /\ cur'[h].e.name = KeyFormat(RawKeyName)]_vars

\* C3: no delivered event has the agent's own PID
C3_NoSelfPidDelivered ==
    \A i \in 1..Len(delivered) : delivered[i].e.pid # SelfPid

\* C3 witness: an event of the agent's own PID reached publishEvent and was
\* dropped by the self filter, while another event has been delivered
C3_Witness ==
    /\ lastPub.pid = SelfPid /\ lastPub.by = "self"
    /\ Len(delivered) > 0

\* C4: no delivered event matches an exclude rule: the image resolved for its
\* producing PID is not an excluded image and its kind is not an excluded kind
C4_NoExcludedDelivered ==
    \A i \in 1..Len(delivered) :
        /\ delivered[i].img \notin cfg.excludedImages
        /\ delivered[i].e.kind \notin cfg.excludedKinds

\* C4 witness: with an excluded kind configured, an event of an excluded
\* image has just been dropped and an event has been delivered
C4_Witness ==
    /\ cfg.excludedKinds # {}
    /\ lastPub.by = "image"
    /\ Len(delivered) > 0

\* the steps in which publishEvent ends for an event of the agent's own PID
OwnPidPublished(h) ==
    /\ pc[h] = "publish" /\ pc'[h] # "publish"
    /\ cur[h].e.pid = SelfPid

\* C5 (as stated): an event of the agent's own PID delivers nothing and leaves
\* kstream.kevents.enqueued and kstream.excluded.procs unchanged, also when
\* the agent's own image is excluded
C5_SelfFilterPrecedesImageFilter ==
    [][\A h \in TraceHandles :
          OwnPidPublished(h)
          => /\ delivered' = delivered /\ kevts' = kevts /\ pc'[h] = "idle"
             /\ metrics'.keventsEnqueued = metrics.keventsEnqueued
             /\ metrics'.excludedProcs = metrics.excludedProcs]_vars

\* C5 (amended): an event of the agent's own PID delivers nothing and leaves
\* kstream.kevents.enqueued unchanged; kstream.excluded.procs grows by one
\* when the image resolved for the agent is an excluded image (the image
\* filter runs first) and is unchanged otherwise
C5_ImageFilterPrecedesSelfFilter ==
    [][\A h \in TraceHandles :
          OwnPidPublished(h)
          => /\ delivered' = delivered /\ kevts' = kevts /\ pc'[h] = "idle"
             /\ metrics'.keventsEnqueued = metrics.keventsEnqueued
             /\ metrics'.excludedProcs = metrics.excludedProcs +
                  (IF lastPub'.img \in cfg.excludedImages THEN 1 ELSE 0)]_vars

\* C5 witness: an event of the agent's own PID was dropped by the image
\* filter and counted in kstream.excluded.procs
C5_Witness ==
    /\ lastPub.pid = SelfPid /\ lastPub.by = "image"
    /\ metrics.excludedProcs > 0

\* C6: publishing an error never blocks: no record callback ever waits to
\* send on a full error channel
C6_ErrorSendNeverBlocks ==
    \A h \in TraceHandles : ~(pc[h] = "senderr" /\ Len(errs) >= ErrsCap)

\* the events on the channel are the latest deliveries, in delivery order
KevtsInDeliveryOrder ==
    ~cfg.callback =>
        /\ Len(kevts) <= Len(delivered)
        /\ \A k \in 1..Len(kevts) :
             kevts[k] = delivered[Len(delivered) - Len(kevts) + k].e

\* the events of one trace handle are delivered in the order in which the
\* chain returned them
DeliveredInChainOrder ==
    \A i, j \in 1..Len(delivered) :
        (i < j /\ delivered[i].h = delivered[j].h)
        => delivered[i].trig < delivered[j].trig

C8_EnqueuedCountsEveryDelivery ==
    metrics.keventsEnqueued = Len(delivered)

\* what the callback and the channel each receive
DeliveryByConfig ==
    IF cfg.callback
    THEN /\ kevts = << >>
         /\ \A i \in 1..Len(delivered) : delivered[i].via = "callback"
         /\ metrics.keventsEnqueued = 0
    ELSE /\ \A i \in 1..Len(delivered) : delivered[i].via = "channel"
         /\ metrics.keventsEnqueued = Len(delivered)

\* C8 (amended): with a callback installed every surviving event is handed to
\* the callback and none is put on the channel; an error of the callback is
\* sent on the error channel; kstream.kevents.enqueued is incremented only
\* for the events put on the channel, not for those handed to the callback
C8_CallbackBypassesChannel ==
    /\ []DeliveryByConfig
    /\ [][cfg.callback =>
            \A h \in TraceHandles :
              /\ (pc[h] = "publish" /\ pc'[h] # "publish"
                  /\ lastPub'.by = "")
                 => /\ Len(delivered') = Len(delivered) + 1
                    /\ delivered'[Len(delivered')].e.id = cur[h].e.id
                    /\ pc'[h] \in {"idle", "senderr"}
                    /\ pc'[h] = "senderr" => cur'[h].err = ErrFail
              /\ (pc[h] = "senderr" /\ pc'[h] # "senderr")
                 => errs' = Append(errs, [trig |-> cur[h].trig,
                                          err |-> cur[h].err])]_vars

\* C8 witness: the callback took an event and returned an error, which the
\* record callback is about to send on the error channel
C8_Witness ==
    /\ cfg.callback
    /\ \E h \in TraceHandles :
         /\ pc[h] = "senderr"
         /\ \E i \in 1..Len(delivered) : delivered[i].trig = cur[h].trig

\* C9: an event for which the chain returned a non-cancel error is still
\* passed to the publish logic
C9_ErrorEventStillPublished ==
    [][\A h \in TraceHandles :
          (pc[h] = "idle" /\ pc'[h] # "idle" /\ cur'[h].err = ErrFail)
          => pc'[h] = "publish"]_vars

\* processor i is reached when every processor before it either failed with
\* a non-cancel error or succeeded and asked to proceed
Reached(rs, i) ==
    \A j \in 1..(i - 1) :
        \/ rs[j].err = ErrFail
        \/ rs[j].err = NoErr /\ rs[j].next

FailedProcessors(rs) ==
    {i \in 1..Len(rs) : Reached(rs, i) /\ rs[i].err = ErrFail}

CancelledWalk(rs) ==
    \E i \in 1..Len(rs) : Reached(rs, i) /\ rs[i].err = ErrCancelUpstreamKevent

ErrEntries(res) == {res.errs[k] : k \in 1..Len(res.errs)}

\* after a non-cancel error the next registered processor is still invoked
NextStillInvoked ==
    \A i \in 1..Len(crs) :
        (Reached(crs, i) /\ crs[i].err = ErrFail /\ i < Len(crs))
        => cres.invoked >= i + 1

\* the walk returns the last invoked processor's event with one combined
\* error that holds an entry for every processor that failed
CombinedErrorReturned ==
    /\ cres.err = ErrFail
    /\ ErrEntries(cres) = FailedProcessors(crs)
    /\ Len(cres.errs) = Cardinality(FailedProcessors(crs))
    /\ cres.output = crs[cres.invoked].out

\* C10: a non-cancel error of a processor does not end the walk: the next
\* registered processor is still invoked, and a walk that runs to its end
\* (no processor cancels upstream) returns the event with one combined error
\* that has an entry for every processor that failed
C10_ErrorsCollected ==
    (crs # << >> /\ FailedProcessors(crs) # {})
    => /\ NextStillInvoked
       /\ ~CancelledWalk(crs) => CombinedErrorReturned

\* C10 witness: the first processor failed, a later one was invoked and
\* failed too, and the walk returned a combined error with two entries
C10_Witness ==
    /\ Len(crs) >= 3
    /\ crs[1].err = ErrFail /\ ~crs[1].next
    /\ crs[2].err = NoErr /\ crs[2].next
    /\ crs[3].err = ErrFail
    /\ cres.invoked = 3
    /\ Len(cres.errs) = 2

\* the processors before i that failed with a non-cancel error
FailedBefore(rs, i) == {j \in FailedProcessors(rs) : j < i}

\* C11 (as stated): when a processor returns proceed = false the walk ends
\* there and returns that processor's event with no error, whatever the
\* earlier processors returned
C11_StopReturnsNoError ==
    \A i \in 1..Len(crs) :
        (Reached(crs, i) /\ crs[i].err = NoErr /\ ~crs[i].next)
        => /\ cres.invoked = i
           /\ cres.output = crs[i].out
           /\ cres.err = NoErr

\* C11 (amended): a processor that returns proceed = false and no error ends
\* the walk: no later processor is invoked and its event is returned, with
\* no error only if no earlier processor failed and with the combined error
\* of the earlier failures otherwise; proceed = false returned together with
\* a non-cancel error does not end the walk
C11_StopReturnsCollectedErrors ==
    \A i \in 1..Len(crs) :
        /\ (Reached(crs, i) /\ crs[i].err = NoErr /\ ~crs[i].next)
           => /\ cres.invoked = i
              /\ cres.output = crs[i].out
              /\ cres.err = (IF FailedBefore(crs, i) = {} THEN NoErr
                             ELSE ErrFail)
              /\ ErrEntries(cres) = FailedBefore(crs, i)
        /\ (Reached(crs, i) /\ crs[i].err = ErrFail /\ ~crs[i].next
            /\ i < Len(crs))
           => cres.invoked >= i + 1

\* C11 witness: the first processor failed, the second returned
\* proceed = false without error, the third was not invoked and the walk
\* returned the second's event with the first's error
C11_Witness ==
    /\ Len(crs) >= 3
    /\ crs[1].err = ErrFail
    /\ crs[2].err = NoErr /\ ~crs[2].next
    /\ cres.invoked = 2
    /\ cres.output = crs[2].out
    /\ cres.err = ErrFail

\* the first processor of the walk that cancels upstream
FirstCancel(rs) ==
    CHOOSE i \in 1..Len(rs) :
        Reached(rs, i) /\ rs[i].err = ErrCancelUpstreamKevent

\* C12: a cancel-upstream error ends the walk at once: no later processor is
\* invoked and the chain returns the sentinel with that processor's event;
\* the consumer counts one upstream cancellation, the callback returns
\* without publishing the event, nothing is sent on the error channel and
\* kstream.kevents.failures is unchanged
C12_CancelEndsWalkSilently ==
    (crs # << >> /\ CancelledWalk(crs))
    => /\ cres.invoked = FirstCancel(crs)
       /\ cres.err = ErrCancelUpstreamKevent
       /\ cres.output = crs[FirstCancel(crs)].out
       /\ metrics.upstreamCancellations = 1
       /\ pc["kernel"] = "idle"
       /\ delivered = << >> /\ kevts = << >> /\ lastPub = NoPub
       /\ errs = << >>
       /\ metrics.failedKevents = 0

\* C12 witness: the first processor failed, the second cancelled upstream
\* and a third one is registered behind it
C12_Witness ==
    /\ Len(crs) >= 3
    /\ crs[1].err = ErrFail
    /\ crs[2].err = ErrCancelUpstreamKevent /\ crs[2].next
    /\ cres.invoked = 2
    /\ metrics.upstreamCancellations = 1

\* C13: on a single trace handle with no capture the events that are dropped
\* consume no sequence number: the sequence numbers of two consecutively
\* delivered events (none of them is a state event) differ by exactly one
C13_NoGapInDeliveredSequence ==
    \A i \in 1..(Len(delivered) - 1) :
        (~IsState(delivered[i].e) /\ ~IsState(delivered[i + 1].e))
        => delivered[i + 1].e.seq = delivered[i].e.seq + 1

\* the sessions whose handle was added and whose goroutine was started
Opened == {traceHandles[i] : i \in 1..Len(traceHandles)}
Started == {n \in DOMAIN traces : tracePc[n] # "none"}

KernelLoggerFails ==
    KernelLoggerSession \in DOMAIN traces
    /\ ~traces[KernelLoggerSession].valid

\* C14: OpenKstream returns an error exactly when the kernel-logger session
\* fails to open; a failure to open an auxiliary session is skipped: when
\* the call returns no error every session that can be opened has been
\* opened and started, and no other session has
C14_OnlyKernelLoggerIsMandatory ==
    openRet # "pending"
    => /\ (openRet = ErrFail) <=> KernelLoggerFails
       /\ (openRet = NoErr) <=> ~KernelLoggerFails
       /\ openRet = NoErr
          => /\ Opened = {n \in DOMAIN traces : traces[n].valid}
             /\ Started = Opened

\* C14 witness: an auxiliary session failed to open, the call returned no
\* error and two other sessions, the kernel logger among them, are open
C14_Witness ==
    /\ openRet = NoErr
    /\ \E n \in DOMAIN traces : ~IsKernelLogger(n) /\ ~traces[n].valid
    /\ KernelLoggerSession \in Opened
    /\ Cardinality(Opened) >= 2

\* C15: when the worker does not signal done within the timeout the call
\* returns the empty name with an error, the worker is terminated and the
\* thread slot is cleared; so a call never signals init to a worker that an
\* earlier wait timed out on
C15_TimeoutReplacesWorker ==
    [][/\ (gpc = "waiting" /\ gpc' = "idle"
           /\ gret'.wait \in {"timeoutStatus", "timeoutErrno"})
          => /\ gret'.name = "" /\ gret'.err # NoErr
             /\ workers'[thread].st = "dead"
             /\ thread' = 0
       /\ (gpc = "signal" /\ gpc' = "waiting") => thread \notin stale]_vars

\* the steps that are one sweep of the reaper
IsSweep == tickC /\ ~tickC'

\* C16: in a sweep a record whose process cannot be opened or is reported
\* running is kept as it is, a record whose process is reported not running
\* is removed, no record is added, and process.reaped grows by the number of
\* records the sweep removed
C16_ReaperRemovesOnlyDead ==
    [][IsSweep =>
         /\ \A p \in Pids :
              /\ (procs[p].present /\ lastOp'.os[p] # "dead")
                 => procs'[p] = procs[p]
              /\ (procs[p].present /\ lastOp'.os[p] = "dead")
                 => ~procs'[p].present
              /\ ~procs[p].present => ~procs'[p].present
         /\ reapedProcesses' = reapedProcesses +
              Cardinality({p \in Pids :
                             procs[p].present /\ ~procs'[p].present})]_vars

\* C16 witness: a sweep has kept the record of a process that could not be
\* opened and removed the record of one reported not running
C16_Witness ==
    /\ lastOp.op = "sweep"
    /\ lastOp.os[SelfPid] = "openFails" /\ procs[SelfPid].present
    /\ lastOp.os["p1"] = "dead" /\ ~procs["p1"].present
    /\ reapedProcesses = 1

\* C17: after Close() of a live snapshotter has returned the reaper task has
\* ended and runs no other sweep
C17_ReaperEndsOnClose ==
    (~snapCapture /\ closes > 0)
    => /\ reaperPc = "ended"
       /\ ~(lastOp.op = "sweep" /\ lastOp.afterClose)

\* the steps in which the process processor handles a thread event
IsThreadEventProcessed ==
    /\ lastOp'.n = lastOp.n + 1
    /\ lastOp'.op = "ps"
    /\ lastOp'.kind \in ThreadKinds \cup {"TerminateThread"}

\* C18: a CreateThread, ThreadRundown or TerminateThread event run through
\* the process processor changes at most the thread set of an existing
\* record: it adds, replaces and removes no entry of the index
C18_ThreadEventsKeepIndex ==
    [][IsThreadEventProcessed =>
         \A p \in Pids :
            /\ procs'[p].present = procs[p].present
            /\ procs[p].present
               => [procs'[p] EXCEPT !.threads = procs[p].threads] = procs[p]
      ]_vars

\* the steps in which WriteFromKcap takes a process event that embeds a
\* record and whose parameters can be read
IsKcapProcessWritten ==
    /\ lastOp'.n = lastOp.n + 1
    /\ lastOp'.op = "kcap"
    /\ lastOp'.kind \in {"CreateProcess", "ProcessRundown"}
    /\ lastOp'.sn = "ok"
    /\ lastOp'.ps.present

\* C19 (as stated): after WriteFromKcap of a CreateProcess or ProcessRundown
\* event that embeds a record for PID p, Find(p) returns a record that is
\* field-equal to the embedded one
C19_KcapRoundTrip ==
    [][IsKcapProcessWritten
       => SnapFindKcap(procs', lastOp'.ps.pid) = lastOp'.ps]_vars

\* C19 (amended): after WriteFromKcap of a ProcessRundown whose embedded
\* record is not its own parent, Find of its PID returns the embedded
\* record; after WriteFromKcap of a CreateProcess, Find of the pid parameter
\* returns a new record built from the event's parameters, with no threads
\* and no parent pointer, whatever record the event embeds
C19_KcapRundownRoundTrip ==
    [][IsKcapProcessWritten =>
         /\ (lastOp'.kind = "ProcessRundown"
             /\ lastOp'.ps.pid # lastOp'.ps.ppid)
            => SnapFindKcap(procs', lastOp'.ps.pid) = lastOp'.ps
         /\ lastOp'.kind = "CreateProcess"
            => SnapFindKcap(procs', lastOp'.pid) =
                 [pid |-> lastOp'.pid, ppid |-> lastOp'.ppid,
                  name |-> OsImage(lastOp'.pid), threads |-> {},
                  handles |-> {}, parent |-> NoPid,
                  present |-> TRUE]]_vars

\* C19 witness: a CreateProcess that embeds a record with a thread for its
\* own pid was written, and the index holds a record without threads
C19_Witness ==
    /\ lastOp.op = "kcap" /\ lastOp.kind = "CreateProcess"
    /\ lastOp.sn = "ok"
    /\ lastOp.ps.present /\ lastOp.ps.pid = lastOp.pid
    /\ lastOp.ps.threads # {}
    /\ procs[lastOp.pid].present /\ procs[lastOp.pid].threads = {}

\* C20: a ProcessRundown whose pid equals its parent pid leaves a replay
\* snapshotter unchanged (Size() is the same before and after WriteFromKcap);
\* a live snapshotter writes it as any rundown and inserts the record
C20_SelfParentRundown ==
    [][/\ (lastOp'.n = lastOp.n + 1 /\ lastOp'.op = "kcap"
           /\ lastOp'.kind = "ProcessRundown"
           /\ lastOp'.pid = lastOp'.ppid)
          => /\ Size(procs') = Size(procs)
             /\ procs' = procs
       /\ (lastOp'.n = lastOp.n + 1 /\ lastOp'.op = "ps"
           /\ lastOp'.kind = "ProcessRundown"
           /\ lastOp'.pid = lastOp'.ppid /\ lastOp'.sn # "params")
          => /\ procs'[lastOp'.pid].present
             /\ procs'[lastOp'.pid].pid = lastOp'.pid
             /\ procs'[lastOp'.pid].ppid = lastOp'.pid
             /\ Size(procs') = Size(procs) +
                  (IF procs[lastOp'.pid].present THEN 0 ELSE 1)]_vars

\* C20 witness: a replay snapshotter that holds a record was given a
\* rundown whose embedded record is its own parent
C20_Witness ==
    /\ snapCapture
    /\ lastOp.op = "kcap" /\ lastOp.kind = "ProcessRundown"
    /\ lastOp.sn = "ok"
    /\ lastOp.ps.present /\ lastOp.ps.pid = lastOp.ps.ppid
    /\ Size(procs) = 1 /\ ~procs[lastOp.pid].present

\* the steps in which snapshotter.Remove runs to its end: a TerminateProcess
\* or TerminateThread event whose pid parameter can be read
IsRemove ==
    /\ lastOp'.n = lastOp.n + 1
    /\ lastOp'.op = "ps"
    /\ lastOp'.kind \in {"TerminateProcess", "TerminateThread"}
    /\ lastOp'.sn # "params"

\* C21: when Remove for a pid has completed, the index has no entry for the
\* pid and no record left in the index has its parent pointer on a record
\* of that pid, whatever Write, Find, Remove and handle callbacks ran before
C21_RemoveLeavesNoParentPointer ==
    [][IsRemove =>
         /\ ~procs'[lastOp'.pid].present
         /\ \A q \in Pids :
               procs'[q].present => procs'[q].parent # lastOp'.pid]_vars

\* C21 witness: Remove has deleted the record of a pid, and a record whose
\* parent pid it is stays in the index with no parent pointer
C21_Witness ==
    /\ lastOp.op = "ps" /\ lastOp.kind = "TerminateProcess"
    /\ lastOp.sn # "params"
    /\ lastOp.before.present
    /\ ~procs[lastOp.pid].present
    /\ \E q \in Pids :
          /\ procs[q].present /\ procs[q].ppid = lastOp.pid
          /\ procs[q].parent = NoPid

\* C22: after a sweep of the reaper no record that remains in the index has
\* its parent pointer on a record the sweep deleted
C22_SweepLeavesNoParentPointer ==
    [][IsSweep =>
         \A p, q \in Pids :
            (procs[p].present /\ ~procs'[p].present /\ procs'[q].present)
            => procs'[q].parent # p]_vars

\* the workers whose name query is under way
Querying == {w \in WorkerIds : workers[w].st \in {"woken", "querying"}}

\* C23: with the callers serialized, at most one worker thread is alive and
\* at most one name query is under way, after any sequence of successful,
\* timed-out and failed calls
C23_AtMostOneWorker ==
    /\ Cardinality({w \in WorkerIds : Alive(w)}) <= 1
    /\ Cardinality(Querying) <= 1

\* C23 witness: after a call that timed out and terminated its worker, the
\* next call has created another worker, whose query is under way
C23_Witness ==
    /\ gret.calls = 2 /\ gpc = "waiting"
    /\ \E w1, w2 \in WorkerIds :
          /\ workers[w1].st = "dead"
          /\ thread = w2 /\ w2 \in Querying

\* the steps in which GetHandleWithTimeout returns after its wait on done
\* was satisfied
IsSuccessfulReturn ==
    /\ gpc = "waiting" /\ gpc' = "idle"
    /\ gret'.wait = "signalled"

\* C25: a successful GetHandleWithTimeout returns the name computed for the
\* handle passed to that call (the empty name when the query of that handle
\* fails), never a name the worker produced for the handle of an earlier call
C25_NameOfOwnHandle ==
    [][IsSuccessfulReturn =>
         gret'.name \in {"", ObjectName(gret'.handle)}]_vars

\* C26: every CreateHandle that was stored in the pending table is still in
\* the table or has been returned by a matching CloseHandle: a withheld
\* CreateHandle is never lost, not even to a second one on the same pointer
C26_WithheldNeverLost ==
    \A o \in Objects :
        held[o] \subseteq
            (IF objects[o] = NoEvent THEN {} ELSE {objects[o].id})

\* the steps in which a handle callback stores its record, after Remove or
\* a sweep deleted the entry of its pid since the callback read it
IsCallbackStoreAfterDelete ==
    /\ cb.st = "read" /\ cb'.st = "idle"
    /\ ~procs[cb.pid].present

\* C27: a handle callback never brings back a removed process: when Remove
\* or a sweep deletes the entry of a pid while onHandleCreated or
\* onHandleDestroyed for that pid is running, the pid is absent from the
\* index once both have finished
C27_CallbackKeepsRemoved ==
    [][IsCallbackStoreAfterDelete => ~procs'[cb.pid].present]_vars

\* the steps in which a Find that missed takes the write lock after a Write
\* stored a record under its pid
IsFindInsertAfterWrite ==
    /\ fd.st = "miss" /\ fd'.st = "idle"
    /\ fd.wrote

\* C28: a record Write inserted for a pid is never replaced by the record
\* a concurrent Find synthesized: when Find misses and Write completes
\* before Find inserts, the index holds the record written by Write after
\* the Find
C28_FindKeepsWritten ==
    [][IsFindInsertAfterWrite => procs'[fd.pid] = procs[fd.pid]]_vars

\* C29: etw.CloseTrace is called at most once on an opened trace handle,
\* across CloseKstream, the goroutine that handles the "trace cancelled"
\* result of ProcessTrace, and a later OpenKstream and CloseKstream
C29_CloseTraceAtMostOnce ==
    \A i \in 1..Len(closeTraceCalls) : closeTraceCalls[i] <= 1

\* C30: Close() always returns: a call that has reached its send on s.quit
\* gets past it, on a live snapshotter, on one built from a capture, and on
\* a second call
C30_CloseReturns == (closePc = "sending") ~> (closePc = "idle")

\* C24: when the record callbacks of two trace handles run concurrently,
\* the pending-object table of the handle processor is never read or
\* written by two callbacks at the same time
C24_PendingTableSerialized ==
    \A h, g \in TraceHandles :
        (h # g) => ~(Accessing(h) /\ Accessing(g))

====
